---------------------------- MODULE Spec2Model ----------------------------
(***************************************************************************)
(* A model of oedabby.py (Python 2): the BoundingBox class, extendblock /   *)
(* removeblock / mergeblocks, findcolumns and postprocess.                  *)
(*                                                                          *)
(* A page's tree (dom) is the sequence of its ocr_carea blocks in document  *)
(* order; a block is [id, title, children], where title is the block's      *)
(* 'title' attribute "bbox l t r b" held as its tokens                      *)
(* <<"bbox", l, t, r, b>> and children is the sequence of the block's child *)
(* elements.  The ocr_line spans of the page are the sequence of their       *)
(* titles in document order.  A call that can raise returns [exc, val]:     *)
(* exc = "none" and the value, or the exception.                            *)
(***************************************************************************)
EXTENDS Integers, Sequences, FiniteSets, TLC

VARIABLES
    dom,      \* the page's ocr_carea blocks, in document order
    dom0,     \* the tree as it was handed to the operation
    lines,    \* the titles of the page's ocr_line spans, in document order
    columns,  \* the boundaries (col1, col2, col3), <<>> for None
    stdout,   \* what the operation printed, in order
    boxA,     \* first BoundingBox operand
    boxB,     \* second BoundingBox operand
    ret,      \* the operation's return value
    exc,      \* the exception that escaped the operation, or "none"
    pc        \* "start", then the name of the operation that ran

vars == <<dom, dom0, lines, columns, stdout, boxA, boxB, ret, exc, pc>>

---------------------------------------------------------------------------
(* Python values and calls *)

None == "None"

Ok(v) == [exc |-> "none", val |-> v]

Raise(e) == [exc |-> e, val |-> None]

Min(a, b) == IF a <= b THEN a ELSE b

Max(a, b) == IF a >= b THEN a ELSE b

Abs(a) == IF a < 0 THEN -a ELSE a

\* The names bound at module level: the assignments of lines 53-64, the
\* imports of lines 39-49 and the top-level class and functions.
ModuleGlobals ==
    {"DEBUG", "PAGESTART", "PAGELIMIT", "SIZE", "XMLTEMPLATE", "HTMLTEMPLATE",
     "IATEMPLATE", "HEADER", "FILENAME",
     "Counter", "gzip", "ET", "plt", "mpatches", "PatchCollection", "np",
     "itemgetter", "os", "requests", "shutil",
     "BoundingBox", "bound_box", "extendblock", "removeblock", "blocktop",
     "mergeblocks", "numberandlink", "findcolumns", "postprocess",
     "download", "processfile", "main"}

\* The value of a module-level name that holds a number or a boolean.
GlobalValue(name) ==
    CASE name = "DEBUG" -> FALSE
      [] name = "PAGESTART" -> 26
      [] name = "PAGELIMIT" -> 1275
      [] name = "SIZE" -> 5 * 1024 * 1024
      [] OTHER -> name

\* Reading a name that is no local of the function: the module's globals
\* (no builtin is called left, top, bottom, b1 or COLMARGIN).
LoadGlobal(name) ==
    IF name \in ModuleGlobals THEN Ok(GlobalValue(name)) ELSE Raise("NameError")

---------------------------------------------------------------------------
(* class BoundingBox *)

\* BoundingBox.__init__(self, bbox)
BoundingBox(bbox) ==
    [left |-> bbox[1], top |-> bbox[2], right |-> bbox[3], bottom |-> bbox[4]]

\* The call BoundingBox(*args): __init__ takes one argument beside self.
NewBoundingBox(args) ==
    IF Len(args) = 1 THEN Ok(BoundingBox(args[1])) ELSE Raise("TypeError")

\* BoundingBox.contains: the right-hand sides left, top, bottom and b1 are
\* read as globals; `and` evaluates left to right and stops at a false one.
contains(self, b2) ==
    LET gl == LoadGlobal("left")
        gt == LoadGlobal("top")
        gb == LoadGlobal("bottom")
        g1 == LoadGlobal("b1")
    IN  IF gl.exc # "none" THEN gl
        ELSE IF ~(b2.left >= gl.val) THEN Ok(FALSE)
        ELSE IF gt.exc # "none" THEN gt
        ELSE IF ~(b2.top >= gt.val) THEN Ok(FALSE)
        ELSE IF gb.exc # "none" THEN gb
        ELSE IF ~(b2.bottom <= gb.val) THEN Ok(FALSE)
        ELSE IF g1.exc # "none" THEN g1
        ELSE Ok(b2.right <= g1.val.right)

\* BoundingBox.intersects
intersects(self, b2) ==
    ~(self.left >= b2.right \/ b2.left >= self.right
      \/ self.top >= b2.bottom \/ b2.top >= self.bottom)

\* BoundingBox.width
width(self) == self.right - self.left

\* BoundingBox.height
height(self) == self.bottom - self.top

\* BoundingBox.centerx: / on two ints is floor division in Python 2
centerx(self) == self.left + (width(self) \div 2)

\* BoundingBox.union
union(self, b2) ==
    NewBoundingBox(<<Min(self.left, b2.left), Min(self.top, b2.top),
                     Max(self.right, b2.right), Max(self.bottom, b2.bottom)>>)

maximize_leftmax(self, b2) ==
    [left |-> Max(self.left, b2.left), top |-> Min(self.top, b2.top),
     right |-> Max(self.right, b2.right), bottom |-> Max(self.bottom, b2.bottom)]

\* BoundingBox.maximize: the value of self after the call
maximize(self, b2) ==
    [left |-> Min(self.left, b2.left), top |-> Min(self.top, b2.top),
     right |-> Max(self.right, b2.right), bottom |-> Max(self.bottom, b2.bottom)]

RECURSIVE column_scan(_, _, _)
\* the loop of BoundingBox.column: for i in range(1, len(cols)), 0-based i
column_scan(self, cols, i) ==
    IF i >= Len(cols) THEN Len(cols) - 1
    ELSE IF self.left < cols[i + 1] - 10 THEN i - 1
    ELSE column_scan(self, cols, i + 1)

RECURSIVE column_scan_gt(_, _, _)
column_scan_gt(self, cols, i) ==
    IF i >= Len(cols) THEN Len(cols) - 1
    ELSE IF self.left > cols[i + 1] - 10 THEN i - 1
    ELSE column_scan_gt(self, cols, i + 1)

column_gt(self, cols) ==
    IF self.right < cols[1] THEN -1 ELSE column_scan_gt(self, cols, 1)

\* BoundingBox.column
column(self, cols) ==
    IF self.right < cols[1] THEN -1 ELSE column_scan(self, cols, 1)

\* BoundingBox.__str__: "bbox %d %d %d %d", held as its five tokens
str(self) == <<"bbox", self.left, self.top, self.right, self.bottom>>

\* BoundingBox.__repr__: "%s %d %d" % (str(self), width, height)
repr(self) == <<str(self), width(self), height(self)>>

---------------------------------------------------------------------------
(* blocks *)

\* bound_box: the text after 'bbox', stripped, split on ' ', each int()
bound_box(block) == SubSeq(block.title, 2, Len(block.title))

\* the element of tree d that is block id
Element(d, id) == d[CHOOSE i \in 1..Len(d) : d[i].id = id]

removeblock_noop(d, id) == d

\* removeblock: the tree after block.find("..").remove(block)
removeblock(d, id) == SelectSeq(d, LAMBDA b : b.id # id)

extendblock_keeptitle(d, ref1, id2) ==
    IF ref1 = <<>> THEN Raise("AttributeError")
    ELSE LET block1 == Element(d, ref1[1])
             block2 == Element(d, id2)
             d1 == [i \in 1..Len(d) |->
                      IF d[i].id = ref1[1]
                      THEN [d[i] EXCEPT !.children = block1.children \o block2.children]
                      ELSE IF d[i].id = id2
                      THEN [d[i] EXCEPT !.children = <<>>]
                      ELSE d[i]]
         IN  Ok(removeblock(d1, id2))

\* extendblock(block1, block2): the tree after merging block id2 into the
\* block that ref1 refers to (<<>> is None, <<id>> is block id;
\* bound_box(None) raises AttributeError)
extendblock(d, ref1, id2) ==
    IF ref1 = <<>> THEN Raise("AttributeError")
    ELSE LET block1 == Element(d, ref1[1])
             block2 == Element(d, id2)
             bb1 == BoundingBox(bound_box(block1))
             bb2 == BoundingBox(bound_box(block2))
             d1 == [i \in 1..Len(d) |->
                      IF d[i].id = ref1[1]
                      THEN [d[i] EXCEPT !.children = block1.children \o block2.children,
                                        !.title = str(maximize(bb1, bb2))]
                      ELSE IF d[i].id = id2
                      THEN [d[i] EXCEPT !.children = <<>>]
                      ELSE d[i]]
         IN  Ok(removeblock(d1, id2))

\* blocktop
blocktop(block) == BoundingBox(bound_box(block)).top

---------------------------------------------------------------------------
(* mergeblocks *)

RECURSIVE classify(_, _, _, _)
\* The first loop of mergeblocks over the blocks found by xpath: st is
\* [dom, cols, page_bb, bboxes, out] after the blocks before blocks[i].
classify(blocks, cols3, i, st) ==
    IF i > Len(blocks) THEN st
    ELSE LET block == blocks[i]
             bbox == BoundingBox(bound_box(block))
             col == column(bbox, cols3)
             st1 == [st EXCEPT !.bboxes = Append(@, bbox),
                               !.page_bb = maximize(@, bbox)]
         IN  IF col < 0
             THEN classify(blocks, cols3, i + 1,
                      [st1 EXCEPT !.dom = removeblock(@, block.id),
                                  !.out = Append(@, <<"Removed", repr(bbox)>>)])
             ELSE classify(blocks, cols3, i + 1,
                      [st1 EXCEPT !.cols[col + 1] = Append(@, block.id)])

RECURSIVE insert_by_top(_, _, _)
\* s with block id put behind every block whose top is not greater
insert_by_top(d, s, id) ==
    IF s = <<>> THEN <<id>>
    ELSE IF blocktop(Element(d, s[Len(s)])) <= blocktop(Element(d, id))
         THEN Append(s, id)
         ELSE Append(insert_by_top(d, SubSeq(s, 1, Len(s) - 1), id), s[Len(s)])

RECURSIVE sorted_by_top(_, _, _)
\* sorted(col, key = top): a stable sort
sorted_by_top(d, col, n) ==
    IF n = 0 THEN <<>>
    ELSE insert_by_top(d, sorted_by_top(d, col, n - 1), col[n])

RECURSIVE merge_column(_, _, _, _, _)
\* The inner loop of mergeblocks over one column's sorted blocks, from
\* order[k] on: [exc, val], val the tree afterwards.
merge_column(d, order, k, lastcenter, lastblock) ==
    IF k > Len(order) THEN Ok(d)
    ELSE LET bbox == BoundingBox(bound_box(Element(d, order[k])))
             c == centerx(bbox)
         IN  IF Abs(lastcenter - c) < 450
             THEN LET r == extendblock(d, lastblock, order[k])
                  IN  IF r.exc # "none" THEN [exc |-> r.exc, val |-> d]
                      ELSE merge_column(r.val, order, k + 1, lastcenter, lastblock)
             ELSE merge_column(d, order, k + 1, c, <<order[k]>>)

RECURSIVE merge_columns(_, _, _)
\* The outer loop of mergeblocks: for col in cols, from cols[i] on.
merge_columns(d, cols, i) ==
    IF i > Len(cols) THEN Ok(d)
    ELSE IF Len(cols[i]) = 1 THEN merge_columns(d, cols, i + 1)
    ELSE LET r == merge_column(d, sorted_by_top(d, cols[i], Len(cols[i])),
                               1, -2000, <<>>)
         IN  IF r.exc # "none" THEN r ELSE merge_columns(r.val, cols, i + 1)

\* mergeblocks from line 192 on, for a tree of more than 3 blocks
mergeblocks_body(d, cols3) ==
    LET blocks == d
        st == classify(blocks, cols3, 1,
                  [dom |-> d, cols |-> <<<<>>, <<>>, <<>>>>,
                   page_bb |-> BoundingBox(<<1500, 1500, 1500, 1500>>),
                   bboxes |-> <<>>, out |-> <<>>])
        r == merge_columns(st.dom, st.cols, 1)
    IN  IF r.exc # "none"
        THEN [exc |-> r.exc, dom |-> r.val, out |-> st.out]
        ELSE [exc |-> "none", dom |-> r.val,
              out |-> st.out \o << <<"Page", repr(st.page_bb)>> >>
                      \o (IF Len(r.val) # 3
                          THEN << <<"wrong # blocks", Len(r.val)>> >>
                               \o [j \in 1..Len(st.bboxes) |-> str(st.bboxes[j])]
                          ELSE <<>>)]

mergeblocks_skip2(d, cols3) ==
    IF Len(d) <= 2 THEN [exc |-> "none", dom |-> d, out |-> <<>>]
    ELSE mergeblocks_body(d, cols3)

\* mergeblocks(dom, columns): [exc, dom, out], the tree and the printed
\* lines when it returns or raises (DEBUG is False).
mergeblocks(d, cols3) ==
    LET blocks == d
    IN  IF Len(blocks) <= 3 THEN [exc |-> "none", dom |-> d, out |-> <<>>]
        ELSE mergeblocks_body(d, cols3)

---------------------------------------------------------------------------
(* findcolumns and postprocess *)

RECURSIVE SortedAsc(_)
\* sorted(S): the numbers of S in ascending order
SortedAsc(S) ==
    IF S = {} THEN <<>>
    ELSE LET m == CHOOSE x \in S : \A y \in S : x <= y
         IN  <<m>> \o SortedAsc(S \ {m})

\* s reversed
Reversed(s) == [i \in 1..Len(s) |-> s[Len(s) + 1 - i]]

RECURSIVE SumRange(_, _, _)
\* f[lo] + .. + f[hi]
SumRange(f, lo, hi) ==
    IF lo > hi THEN 0
    ELSE IF lo = hi THEN f[lo]
    ELSE LET mid == (lo + hi) \div 2
         IN  SumRange(f, lo, mid) + SumRange(f, mid + 1, hi)

\* left = int(bbox[0]) of a line's title, bbox the tokens behind the first
lineleft(title) == title[2]

\* int(split(' ')[2]) of a line's title: its top
linetop(title) == title[3]

\* right = int(bbox[2]) of a line's title
lineright(title) == title[4]

\* leftcounter: how many lines start at each left edge
leftcounter(ls) ==
    [x \in { lineleft(ls[n]) : n \in 1..Len(ls) } |->
        Cardinality({ n \in 1..Len(ls) : lineleft(ls[n]) = x })]

\* total: the sum of the lines' widths
totalwidth(ls) ==
    SumRange([n \in 1..Len(ls) |-> lineright(ls[n]) - lineleft(ls[n])], 1, Len(ls))

RECURSIVE col3_scan(_, _, _, _)
\* The loop that looks for the right column's left edge, over the left
\* edges in descending order from keys[i] on; last is <<>> for None.
\* [hit, last]: hit when the loop reached the assignment to col3.
col3_scan(lc, keys, i, last) ==
    IF i > Len(keys) THEN [hit |-> FALSE, last |-> last]
    ELSE LET k == keys[i]
             v == lc[k]
         IN  IF last # <<>> /\ last[1] # 0 /\ last[1] - k > 200
             THEN [hit |-> TRUE, last |-> last]
             ELSE IF k < 2400 /\ v > 1
                  THEN col3_scan(lc, keys, i + 1, <<k>>)
                  ELSE col3_scan(lc, keys, i + 1, last)

RECURSIVE col2_scan(_, _, _, _, _, _)
\* The loop that looks for the middle column, over the left edges in
\* ascending order from keys[i] on: the value of col2 after the loop.
col2_scan(lc, keys, i, last, triggered, margin) ==
    IF i > Len(keys) THEN -1
    ELSE LET k == keys[i]
             v == lc[k]
         IN  IF ~(v > 2) THEN col2_scan(lc, keys, i + 1, last, triggered, margin)
             ELSE IF last = <<>> \/ last[1] = 0
                  THEN col2_scan(lc, keys, i + 1, <<k>>, triggered, margin)
             ELSE IF triggered
                  THEN IF k - last[1] < 10 THEN last[1] - margin
                       ELSE col2_scan(lc, keys, i + 1, <<k>>, triggered, margin)
             ELSE col2_scan(lc, keys, i + 1, <<k>>, k - last[1] > 100, margin)

\* the index of the list of columnlines a line with this left edge goes to
columnline(left, col2, col3) ==
    IF left >= col3 THEN 2 ELSE IF left <= col2 THEN 0 ELSE 1

\* columnlines: the lines of the page (their places in ls) by column, 0..2
columnlines(ls, col2, col3) ==
    [i \in 0..2 |->
        { n \in 1..Len(ls) : columnline(lineleft(ls[n]), col2, col3) = i }]

\* len(columnlines[i])
columnlen(ls, col2, col3, i) == Cardinality(columnlines(ls, col2, col3)[i])

\* the prints of the sanity check of the line counts, columns i..2
RECURSIVE shortcolumns(_, _, _, _)
shortcolumns(ls, col2, col3, i) ==
    IF i > 2 THEN <<>>
    ELSE (IF 4 * columnlen(ls, col2, col3, i) < Len(ls)
          THEN << <<"*** short column", i, columnlen(ls, col2, col3, i)>> >>
          ELSE <<>>) \o shortcolumns(ls, col2, col3, i + 1)

\* the top of the first (pick = "first") or last line of each column
\* after the sort by top
words(ls, col2, col3, pick) ==
    [i \in 1..3 |->
        LET tops == { linetop(ls[n]) : n \in columnlines(ls, col2, col3)[i - 1] }
        IN  IF pick = "first" THEN CHOOSE x \in tops : \A y \in tops : x <= y
            ELSE CHOOSE x \in tops : \A y \in tops : x >= y]

\* findcolumns from line 307 on, for a page of at least 30 lines:
\* [exc, val, out], val the returned tuple
findcolumns_body(ls) ==
    LET lc == leftcounter(ls)
        asc == SortedAsc(DOMAIN lc)
        out1 == << <<"Average width", totalwidth(ls) \div Len(ls)>> >>
        scan == col3_scan(lc, Reversed(asc), 1, <<>>)
        g == LoadGlobal("COLMARGIN")
    IN  \* line 329 where the scan found its gap, else line 336
        IF g.exc # "none" THEN [exc |-> g.exc, val |-> <<>>, out |-> out1]
        ELSE
        LET margin == g.val
            col3 == IF scan.hit THEN <<scan.last[1] - margin>> ELSE <<>>
            col1 == IF asc[1] > margin THEN asc[1] - margin ELSE 0
            col2a == col2_scan(lc, asc, 1, <<>>, FALSE, margin)
        IN  \* col3 is read on line 364 or, at the latest, on line 366
            IF col3 = <<>> THEN [exc |-> "UnboundLocalError", val |-> <<>>, out |-> out1]
            ELSE
            LET col2 == IF col2a = -1 THEN ((col3[1] - col1) \div 2) + col1 ELSE col2a
                out2 == out1 \o << <<"Columns", col1, col2, col3[1]>>,
                                   <<"Total lines", Len(ls)>> >>
                            \o shortcolumns(ls, col2, col3[1], 0)
            IN  \* columnlines[i][0] of an empty list
                IF \E i \in 0..2 : columnlines(ls, col2, col3[1])[i] = {}
                THEN [exc |-> "IndexError", val |-> <<>>, out |-> out2]
                ELSE [exc |-> "none", val |-> <<col1, col2, col3[1]>>,
                      out |-> out2 \o << <<"First words", words(ls, col2, col3[1], "first")>>,
                                         <<"Last words", words(ls, col2, col3[1], "last")>> >>]

findcolumns_min20(ls) ==
    IF Len(ls) < 20 THEN [exc |-> "none", val |-> <<>>, out |-> <<>>]
    ELSE findcolumns_body(ls)

\* findcolumns(dom): [exc, val, out]; val is the returned tuple, <<>> for
\* None
findcolumns(ls) ==
    IF Len(ls) < 30 THEN [exc |-> "none", val |-> <<>>, out |-> <<>>]
    ELSE findcolumns_body(ls)

\* postprocess(dom): [exc, dom, columns, out]
postprocess(d, ls) ==
    LET f == findcolumns(ls)
    IN  IF f.exc # "none"
        THEN [exc |-> f.exc, dom |-> d, columns |-> <<>>, out |-> f.out]
        ELSE IF f.val = <<>>
        THEN [exc |-> "none", dom |-> d, columns |-> <<>>, out |-> f.out]
        ELSE LET m == mergeblocks(d, f.val)
             IN  [exc |-> m.exc, dom |-> m.dom, columns |-> f.val,
                  out |-> f.out \o << <<"Columns", f.val>> >> \o m.out]

---------------------------------------------------------------------------
(* mergeblocks called on a page with given boundaries *)

MaxBlocks == 5

MaxKids == 2

\* Block boxes of a 3-column page (nominal column width ~720-750 px):
\* three stacked fragments of column 1, a wide footer, columns 2 and 3,
\* a speck in the left margin and a narrow runt.
RegionBoxes ==
    { <<100, 100, 800, 1000>>, <<100, 1000, 800, 2000>>, <<110, 2000, 810, 3000>>,
      <<100, 3010, 2400, 3100>>,
      <<900, 100, 1600, 3000>>, <<1700, 100, 2400, 3000>>,
      <<10, 500, 60, 600>>, <<120, 3000, 300, 3100>> }

\* Boundaries of a left-hand and of a right-hand page (300 px gutter offset)
ColumnChoices == { <<90, 890, 1690>>, <<390, 1190, 1990>> }

\* the child elements of the i-th block of a page: k of them
Children(i, k) == [j \in 1..k |-> <<i, j>>]

\* The pages of at most MaxBlocks blocks with distinct boxes; the i-th
\* block has 1 + (i + shift) % MaxKids children.
Pages(boxes, shift) ==
    { [i \in 1..Len(bs) |->
          [id |-> i, title |-> <<"bbox">> \o bs[i],
           children |-> Children(i, 1 + ((i + shift) % MaxKids))]] :
      bs \in { b \in UNION { [1..n -> boxes] : n \in 0..MaxBlocks } :
                   \A i, j \in 1..Len(b) : i # j => b[i] # b[j] } }

NoBox == BoundingBox(<<0, 0, 0, 0>>)

InitMerge ==
    /\ \E shift \in 1..MaxKids : dom \in Pages(RegionBoxes, shift)
    /\ dom0 = dom
    /\ columns \in ColumnChoices
    /\ lines = <<>>
    /\ stdout = <<>>
    /\ boxA = NoBox
    /\ boxB = NoBox
    /\ ret = None
    /\ exc = "none"
    /\ pc = "start"

\* mergeblocks(dom, columns)
Mergeblocks ==
    /\ pc = "start"
    /\ LET r == mergeblocks(dom, columns)
       IN  /\ dom' = r.dom
           /\ stdout' = r.out
           /\ exc' = r.exc
    /\ pc' = "mergeblocks"
    /\ UNCHANGED <<dom0, lines, columns, boxA, boxB, ret>>

NextMerge == Mergeblocks

SpecMerge == InitMerge /\ [][NextMerge]_vars

---------------------------------------------------------------------------
(* Properties of mergeblocks *)

\* the box of the i-th block of the input tree
Box0(i) == BoundingBox(bound_box(dom0[i]))

\* the input blocks that column() puts in column c (-1: the left margin)
Group(c) == { i \in 1..Len(dom0) : column(Box0(i), columns) = c }

\* pairwise, the horizontal centers are closer than the merge threshold
Aligned(S) ==
    \A i, j \in S : Abs(centerx(Box0(i)) - centerx(Box0(j))) < 450

\* pairwise, one box ends above the top of the other
Stacked(S) ==
    \A i, j \in S : i # j =>
        Box0(i).bottom <= Box0(j).top \/ Box0(j).bottom <= Box0(i).top

\* the blocks of S that are still in the tree
Survivors(S) == { k \in 1..Len(dom) : dom[k].id \in S }

RECURSIVE UnionOf(_)
\* coordinate-wise union of the input boxes of the non-empty set S
UnionOf(S) ==
    LET i == CHOOSE x \in S : TRUE
        b == Box0(i)
    IN  IF S = {i} THEN b
        ELSE LET u == UnionOf(S \ {i})
             IN  [left |-> Min(b.left, u.left), top |-> Min(b.top, u.top),
                  right |-> Max(b.right, u.right), bottom |-> Max(b.bottom, u.bottom)]

RECURSIVE KidsOf(_)
\* total number of children of the input blocks of S
KidsOf(S) ==
    IF S = {} THEN 0
    ELSE LET i == CHOOSE x \in S : TRUE
         IN  Len(dom0[i].children) + KidsOf(S \ {i})

\* block k of the tree holds a child that came from input block i
HoldsChildOf(k, i) ==
    \E m \in 1..Len(dom[k].children) : dom[k].children[m][1] = i

\* the column's three blocks are stacked and aligned
ThreeFragments(c) ==
    Cardinality(Group(c)) = 3 /\ Aligned(Group(c)) /\ Stacked(Group(c))

\* C1: when mergeblocks has run on a page of more than 3 blocks and a
\* column was assigned exactly three blocks that are vertically stacked with
\* horizontal centers within 450 px of each other, then, whatever the
\* document order of the blocks, exactly one of the three is left in the
\* tree, its box is the union of the three boxes and it has as many
\* children as the three had together.
C1_MergeThree ==
    (pc = "mergeblocks" /\ Len(dom0) > 3) =>
        \A c \in 0..2 : ThreeFragments(c) =>
            /\ exc = "none"
            /\ Cardinality(Survivors(Group(c))) = 1
            /\ \A k \in Survivors(Group(c)) :
                  /\ dom[k].title = str(UnionOf(Group(c)))
                  /\ Len(dom[k].children) = KidsOf(Group(c))

\* C1's case: the three fragments came in an order that is not top to
\* bottom, and were merged into the first block of the tree.
C1_Witness ==
    /\ pc = "mergeblocks"
    /\ Len(dom0) = 5
    /\ ThreeFragments(0)
    /\ \E i, j \in Group(0) : i < j /\ Box0(i).top > Box0(j).top
    /\ Len(dom) = 3
    /\ Len(dom[1].children) = KidsOf(Group(0))

\* C2 as stated: after mergeblocks, whatever the number of blocks, a block
\* whose right edge is left of col1 is out of the tree and no block left in
\* the tree holds a child of it.
C2_AnyCount ==
    pc = "mergeblocks" =>
        \A i \in 1..Len(dom0) : Box0(i).right < columns[1] =>
            /\ Survivors({i}) = {}
            /\ \A k \in 1..Len(dom) : ~HoldsChildOf(k, i)

\* C2 amended: the same, on a page of more than 3 blocks (mergeblocks
\* returns at once, leaving the tree alone, when it finds 3 blocks or fewer).
C2_MarginRemoved ==
    (pc = "mergeblocks" /\ Len(dom0) > 3) =>
        \A i \in 1..Len(dom0) : Box0(i).right < columns[1] =>
            /\ Survivors({i}) = {}
            /\ \A k \in 1..Len(dom) : ~HoldsChildOf(k, i)

\* C2's case: a page with a margin block, on which blocks were merged too.
C2_Witness ==
    /\ pc = "mergeblocks"
    /\ Len(dom0) > 3
    /\ Group(-1) # {}
    /\ Len(dom) < Len(dom0) - Cardinality(Group(-1))
    /\ \A i \in Group(-1) : Survivors({i}) = {}

\* the scenario of C3: 5 blocks, two stacked and aligned fragments in
\* column 1, one block in column 2, one in column 3, one left of col1
FiveRegionPage ==
    /\ Len(dom0) = 5
    /\ Cardinality(Group(0)) = 2 /\ Aligned(Group(0)) /\ Stacked(Group(0))
    /\ Cardinality(Group(1)) = 1
    /\ Cardinality(Group(2)) = 1
    /\ Cardinality(Group(-1)) = 1

\* C3: after mergeblocks on the 5-block page above exactly 3 blocks are
\* left, the margin block was printed as removed, and the block left in
\* column 1 has the union of the two fragments' boxes.
C3_FiveRegions ==
    (pc = "mergeblocks" /\ FiveRegionPage) =>
        /\ exc = "none"
        /\ Len(dom) = 3
        /\ \A i \in Group(-1) :
              /\ Survivors({i}) = {}
              /\ \E n \in 1..Len(stdout) : stdout[n] = <<"Removed", repr(Box0(i))>>
        /\ Cardinality(Survivors(Group(0))) = 1
        /\ \A k \in Survivors(Group(0)) : dom[k].title = str(UnionOf(Group(0)))

\* C3's case: the scenario, with the margin block first in the document.
C3_Witness ==
    /\ pc = "mergeblocks"
    /\ FiveRegionPage
    /\ 1 \in Group(-1)
    /\ Len(dom) = 3

---------------------------------------------------------------------------
(* mergeblocks called a second time on the tree it left *)

\* Block boxes: two fragments of column 1 of which the second reaches
\* further right, a third fragment, a wide footer whose center is 450 px
\* right of the first fragment's, columns 2 and 3 and a speck in the margin
RerunBoxes ==
    { <<100, 100, 800, 1000>>, <<800, 1000, 998, 2000>>, <<100, 2000, 800, 3000>>,
      <<100, 3010, 1700, 3100>>,
      <<900, 100, 1600, 3000>>, <<1700, 100, 2400, 3000>>,
      <<10, 500, 60, 600>> }

InitRerun ==
    /\ \E shift \in 1..MaxKids : dom \in Pages(RerunBoxes, shift)
    /\ dom0 = dom
    /\ columns \in ColumnChoices
    /\ lines = <<>>
    /\ stdout = <<>>
    /\ boxA = NoBox
    /\ boxB = NoBox
    /\ ret = None
    /\ exc = "none"
    /\ pc = "start"

\* mergeblocks(dom, columns) once more, with the same columns, on the tree
\* the first call left
MergeblocksAgain ==
    /\ pc = "mergeblocks"
    /\ exc = "none"
    /\ LET r == mergeblocks(dom, columns)
       IN  /\ dom' = r.dom
           /\ stdout' = stdout \o r.out
           /\ exc' = r.exc
    /\ dom0' = dom
    /\ pc' = "mergeblocks again"
    /\ UNCHANGED <<lines, columns, boxA, boxB, ret>>

NextRerun == Mergeblocks \/ MergeblocksAgain

SpecRerun == InitRerun /\ [][NextRerun]_vars

\* some block of tree d holds children that came from another block: the
\* call that left d merged blocks
MergedSome(d) ==
    \E k \in 1..Len(d) : \E m \in 1..Len(d[k].children) :
        d[k].children[m][1] # d[k].id

\* C11 as stated: a second run of mergeblocks with the same boundaries
\* leaves the tree of the first run as it is: the same blocks with the same
\* boxes and children.
C11_Idempotent ==
    pc = "mergeblocks again" => (exc = "none" /\ dom = dom0)

\* C11 amended: the second run leaves the tree as it is when the first run
\* left at most 3 blocks or merged no blocks.
C11_IdempotentSettled ==
    (pc = "mergeblocks again" /\ (Len(dom0) <= 3 \/ ~MergedSome(dom0))) =>
        (exc = "none" /\ dom = dom0)

\* C11's case: the first run merged blocks and left 3, and the second run
\* left them alone.
C11_Witness ==
    /\ pc = "mergeblocks again"
    /\ Len(dom0) = 3
    /\ MergedSome(dom0)
    /\ dom = dom0

---------------------------------------------------------------------------
(* postprocess and findcolumns called on a page *)

MaxCluster == 3

MaxStray == 1

\* n lines of a column whose text starts at x, one below the other
LinesAt(x, n) == [j \in 1..n |-> <<"bbox", x, 100 * j, x + 700, 100 * j + 40>>]

\* n short lines that start in the middle of column 2
StrayLines(n) == [j \in 1..n |-> <<"bbox", 1300, 100 * j, 1400, 100 * j + 40>>]

\* Pages of lines: 0, 10, .. lines at each of the left edges 100, 900 and
\* 1700, and 0, 9, .. stray lines.
LinePages ==
    { LinesAt(100, 10 * a) \o LinesAt(900, 10 * b)
          \o LinesAt(1700, 10 * c) \o StrayLines(9 * n) :
      a \in 0..MaxCluster, b \in 0..MaxCluster, c \in 0..MaxCluster,
      n \in 0..MaxStray }

\* Block boxes: a speck in the left margin, two fragments of column 1, and
\* column 2
PostBoxes ==
    { <<10, 500, 60, 600>>, <<100, 100, 800, 1000>>, <<100, 1000, 800, 2000>>,
      <<900, 100, 1600, 3000>> }

\* the empty page and the pages of all four blocks, in every order
PostPages == { p \in Pages(PostBoxes, 1) : Len(p) \in {0, 4} }

InitPost ==
    /\ dom \in PostPages
    /\ dom0 = dom
    /\ lines \in LinePages
    /\ columns = <<>>
    /\ stdout = <<>>
    /\ boxA = NoBox
    /\ boxB = NoBox
    /\ ret = None
    /\ exc = "none"
    /\ pc = "start"

\* newdom = postprocess(newdom)
Postprocess ==
    /\ pc = "start"
    /\ LET r == postprocess(dom, lines)
       IN  /\ dom' = r.dom
           /\ columns' = r.columns
           /\ stdout' = r.out
           /\ exc' = r.exc
           /\ ret' = IF r.exc = "none" THEN r.dom ELSE None
    /\ pc' = "postprocess"
    /\ UNCHANGED <<dom0, lines, boxA, boxB>>

\* columns = findcolumns(dom)
Findcolumns ==
    /\ pc = "start"
    /\ LET r == findcolumns(lines)
       IN  /\ columns' = r.val
           /\ stdout' = r.out
           /\ exc' = r.exc
           /\ ret' = IF r.exc = "none" THEN r.val ELSE None
    /\ pc' = "findcolumns"
    /\ UNCHANGED <<dom, dom0, lines, boxA, boxB>>

NextPost == Postprocess \/ Findcolumns

SpecPost == InitPost /\ [][NextPost]_vars

---------------------------------------------------------------------------
(* Properties of findcolumns and postprocess *)

\* C4: on a page of fewer than 30 lines findcolumns returns None, and
\* postprocess returns the tree it was given with every block, title and
\* child as before, and raises nothing.
C4_FewLinesUnchanged ==
    (pc \in {"postprocess", "findcolumns"} /\ Len(lines) < 30) =>
        /\ exc = "none"
        /\ columns = <<>>
        /\ dom = dom0
        /\ pc = "postprocess" => ret = dom0

\* C4's case: 29 lines, and 4 blocks of which mergeblocks would have
\* removed one and merged two.
C4_Witness ==
    /\ pc = "postprocess"
    /\ Len(lines) = 29
    /\ Len(dom0) = 4
    /\ exc = "none"
    /\ dom = dom0

\* every line of the page starts at the same left edge, so that two of the
\* three buckets hold no line wherever the boundaries are
OneLeftEdge == Cardinality({ lineleft(lines[n]) : n \in 1..Len(lines) }) = 1

\* C5 as stated: on a page of at least 30 lines, buckets short of 25% of
\* the lines or empty do not stop the page: findcolumns returns
\* (col1, col2, col3) and postprocess goes on to mergeblocks and returns.
C5_ShortColumnReturns ==
    (pc \in {"postprocess", "findcolumns"} /\ Len(lines) >= 30
        /\ OneLeftEdge) =>
        (exc = "none" /\ Len(columns) = 3)

\* C6 as stated: on a page of at least 30 lines, whatever the left edges,
\* no exception escapes findcolumns and postprocess.
C6_NoEscape ==
    (pc \in {"postprocess", "findcolumns"} /\ Len(lines) >= 30) =>
        exc = "none"

\* the page of 90 lines: 30 at x=100, 30 at x=900, 30 at x=1700
NinetyLines ==
    lines = LinesAt(100, 30) \o LinesAt(900, 30) \o LinesAt(1700, 30)

\* C7 as stated: on the page of 90 lines findcolumns returns boundaries
\* within 10 px of 100, 900 and 1700, the three buckets hold 30 lines each
\* and no short column is printed.
C7_NinetyLines ==
    (pc = "findcolumns" /\ NinetyLines) =>
        /\ exc = "none"
        /\ Len(columns) = 3
        /\ Abs(columns[1] - 100) <= 10
        /\ Abs(columns[2] - 900) <= 10
        /\ Abs(columns[3] - 1700) <= 10
        /\ \A i \in 0..2 : columnlen(lines, columns[2], columns[3], i) = 30
        /\ \A n \in 1..Len(stdout) : stdout[n][1] # "*** short column"

---------------------------------------------------------------------------
(* BoundingBox methods called on given boxes *)

MaxX == 4

MaxY == 2

Xs == { 5 * k : k \in 0..MaxX }

Ys == { 5 * k : k \in 0..MaxY }

\* the boxes on the grid with left <= right and top <= bottom
Boxes ==
    { BoundingBox(q) : q \in { p \in Xs \X Ys \X Xs \X Ys :
                                    p[1] <= p[3] /\ p[2] <= p[4] } }

InitBox ==
    /\ boxA \in Boxes
    /\ boxB \in Boxes
    /\ dom = <<>>
    /\ dom0 = <<>>
    /\ columns = <<>>
    /\ lines = <<>>
    /\ stdout = <<>>
    /\ ret = None
    /\ exc = "none"
    /\ pc = "start"

\* boxA.intersects(boxB)
CallIntersects ==
    /\ pc = "start"
    /\ ret' = intersects(boxA, boxB)
    /\ pc' = "intersects"
    /\ UNCHANGED <<dom, dom0, lines, columns, stdout, boxA, boxB, exc>>

\* u = boxA.union(boxB); (u.contains(boxA), u.contains(boxB))
CallUnionContains ==
    /\ pc = "start"
    /\ LET u == union(boxA, boxB)
           ca == contains(u.val, boxA)
           cb == contains(u.val, boxB)
       IN  IF u.exc # "none" THEN exc' = u.exc /\ ret' = None
           ELSE IF ca.exc # "none" THEN exc' = ca.exc /\ ret' = None
           ELSE IF cb.exc # "none" THEN exc' = cb.exc /\ ret' = None
           ELSE exc' = "none" /\ ret' = <<ca.val, cb.val>>
    /\ pc' = "union_contains"
    /\ UNCHANGED <<dom, dom0, lines, columns, stdout, boxA, boxB>>

\* boxA.contains(boxB)
CallContains ==
    /\ pc = "start"
    /\ LET c == contains(boxA, boxB)
       IN  exc' = c.exc /\ ret' = c.val
    /\ pc' = "contains"
    /\ UNCHANGED <<dom, dom0, lines, columns, stdout, boxA, boxB>>

NextBox == CallIntersects \/ CallUnionContains \/ CallContains

SpecBox == InitBox /\ [][NextBox]_vars

\* boxB differs from boxA in its left edge at most
InitColumn ==
    /\ boxA \in Boxes
    /\ boxB \in { b \in Boxes : b.top = boxA.top /\ b.right = boxA.right
                                   /\ b.bottom = boxA.bottom }
    /\ columns \in Xs \X Xs \X Xs
    /\ dom = <<>>
    /\ dom0 = <<>>
    /\ lines = <<>>
    /\ stdout = <<>>
    /\ ret = None
    /\ exc = "none"
    /\ pc = "start"

\* (boxA.column(columns), boxB.column(columns))
CallColumn ==
    /\ pc = "start"
    /\ ret' = <<column(boxA, columns), column(boxB, columns)>>
    /\ pc' = "column"
    /\ UNCHANGED <<dom, dom0, lines, columns, stdout, boxA, boxB, exc>>

NextColumn == CallColumn

SpecColumn == InitColumn /\ [][NextColumn]_vars

---------------------------------------------------------------------------
(* Properties of BoundingBox *)

\* C8: for any three boundaries and two boxes with the same top, right and
\* bottom, the box whose left edge is further left gets a column index that
\* is not greater.
C8_ColumnMonotonic ==
    (/\ pc = "column"
     /\ boxA.top = boxB.top /\ boxA.right = boxB.right /\ boxA.bottom = boxB.bottom
     /\ boxA.left < boxB.left) => ret[1] <= ret[2]

\* C8's case: moving the left edge to the right takes the box from the
\* first column to the last.
C8_Witness ==
    /\ pc = "column"
    /\ boxA.top = boxB.top /\ boxA.right = boxB.right /\ boxA.bottom = boxB.bottom
    /\ boxA.left < boxB.left
    /\ ret = <<0, 2>>

\* C9 as stated: boxA.union(boxB) returns a box, and its contains() says
\* True of boxA and of boxB.
C9_UnionContains ==
    pc = "union_contains" => (exc = "none" /\ ret = <<TRUE, TRUE>>)

\* the closed rectangles a and b have a point in common
SharePoint(a, b) ==
    /\ a.left <= b.right /\ b.left <= a.right
    /\ a.top <= b.bottom /\ b.top <= a.bottom

\* the box has a positive width and a positive height
Proper(a) == a.left < a.right /\ a.top < a.bottom

\* C10 as stated: intersects() is True exactly when the closed rectangles
\* have a point in common, touching edges and corners included (checked on
\* boxes of positive width and height).
C10_IntersectsClosed ==
    (pc = "intersects" /\ Proper(boxA) /\ Proper(boxB)) =>
        (ret = SharePoint(boxA, boxB))

====
